---- MODULE Spec2Model ----
(***************************************************************************)
(* Users / groups directory service (users-groups-mcp-server).             *)
(*                                                                         *)
(* The state is the relational store: the users table, the groups table    *)
(* and the group_user_association table.  Every action is one call of a    *)
(* store method (user_group_db/models.py) or of a tool / HTTP route        *)
(* (main.py), run to completion in its own session: what the method        *)
(* commits is in the primed store, what the session drops when it is       *)
(* closed without a commit is not.  Two operations are modelled in steps:  *)
(* a Group.create transaction of a second server process (pending), whose  *)
(* queries and commit other transactions may come between, and a           *)
(* generate_username request (gen), which awaits the agent between its     *)
(* look-ups.                                                               *)
(*                                                                         *)
(* Python None / SQL NULL is NoneV, the empty string is "".  A query       *)
(* filter(col == v) with v = None is rendered by the ORM as col IS NULL,   *)
(* so a filter is equality on the stored value in both cases.              *)
(***************************************************************************)
EXTENDS Integers, Sequences, FiniteSets, TLC

VARIABLES users, groups, members, last, pending, gen

vars == <<users, groups, members, last, pending, gen>>

\* ------------------------------------------------------------------ bounds
MaxUsers == 2
MaxAccountUsers == 3
MaxGroups == 1
MaxListLen == 2
\* Group ids, where several groups make the ids grow without end.
MaxGroupId == 3
\* The store-level specification: groups stored at once.
MaxStoreGroups == 2
\* The concurrent specification: Group.create transactions in flight.
MaxSessions == 2

\* ------------------------------------------------------------------ values
NoneV == "None"

UserIds == {"t1", "t2"}
Usernames == {"alice", "bob"}
GroupNames == {"G1", "G2"}

\* Optional[str] arguments (store methods, JSON bodies): None or a value.
UserIdArgs == {NoneV} \cup UserIds
UsernameArgs == {NoneV} \cup Usernames
\* The identity pairs User.create is called with.  The empty string is drawn
\* where the code tests truthiness (`not user_id and not username`).
UserCreateArgs ==
    (UserIdArgs \X UsernameArgs) \cup {<<"", "">>, <<"", NoneV>>, <<NoneV, "">>}
\* Owner argument of Group.create, tested by `if owner_user_id`.
OwnerArgs == {NoneV, ""} \cup UserIds
\* Tool arguments are typed str.
TeacherArgs == {""} \cup UserIds
ToolUsernameArgs == {""} \cup Usernames

\* Python truthiness of an Optional[str]: `if x`, `not x`.
Truthy(x) == x # NoneV /\ x # ""

Range(s) == {s[i] : i \in DOMAIN s}

\* Optional[List[str]]: None and [] are both falsy in `if usernames`, so the
\* absent list is the empty sequence.
UsernameLists ==
    UNION {[1..n -> Usernames] : n \in 0..MaxListLen}

\* ------------------------------------------------------------------ store
\* users: sequence of rows, the index is the primary key users.id (rows are
\* never deleted, so a new row gets id Len(users) + 1).
\* groups: set of rows [id, name, owner_id]; owner_id = 0 is NULL.
\* members: the association table, a set of <<group_id, user_id>> rows (the
\* two columns are its primary key).

UserIdx == DOMAIN users

\* session.query(User).filter(User.user_id == v)
UsersByUserId(v) == {i \in UserIdx : users[i].user_id = v}
\* session.query(User).filter(User.username == v)
UsersByUsername(v) == {i \in UserIdx : users[i].username = v}
\* session.query(Group).filter(Group.id == g)
GroupsById(g) == {r \in groups : r.id = g}
\* session.query(Group).filter(Group.name == n)
GroupsByName(n) == {r \in groups : r.name = n}

\* Query.first(): some matching row, or None (0 for a user, for a group the
\* empty set is tested by the caller).  No ORDER BY is given, so with several
\* matching rows any of them may be returned.
FirstUser(S) == IF S = {} THEN {0} ELSE S

GroupIds == {r.id : r \in groups}

\* INTEGER PRIMARY KEY of the default sqlite store: largest id in use + 1.
NewGroupId ==
    IF groups = {} THEN 1
    ELSE (CHOOSE m \in GroupIds : \A k \in GroupIds : k <= m) + 1

\* group.users / user.groups
GroupUsers(g) == {u \in UserIdx : <<g, u>> \in members}
UserGroups(u) == {g \in GroupIds : <<g, u>> \in members}

\* unique=True on users.user_id and users.username: two rows collide when
\* they hold the same non-NULL value (NULLs never collide).
UniqueViolation(rows) ==
    \E i, j \in DOMAIN rows :
        /\ i # j
        /\ \/ rows[i].user_id # NoneV /\ rows[i].user_id = rows[j].user_id
           \/ rows[i].username # NoneV /\ rows[i].username = rows[j].username

\* last: the record of the call that ran last.  op names it; pre is the case
\* its arguments fell in, g the group id and target the users it was about
\* (what the caller knows before the call); result is what it returned or
\* raised, log the line it logged last.  For a Group.create, entries is the
\* length of its usernames list and owner the users who have the owner id it
\* was given; when it returned, count is the added_users_count and keys are
\* the keys of the dict it returned.  For a get_students_in_group that found
\* students, listed is the list it returned, a student dict being written as
\* the id of its users row.  For a delete, target is the members of the group.
Call(op, pre, g, target) ==
    [op |-> op, pre |-> pre, g |-> g, target |-> target]

Outcome(call, result, log) ==
    [op |-> call.op, pre |-> call.pre, g |-> call.g, target |-> call.target,
     result |-> result, log |-> log, count |-> 0, entries |-> 0, owner |-> {},
     keys |-> {}, listed |-> <<>>]

\* The case of User.create's identity arguments.
IdentityCase(user_id, username) ==
    IF (user_id = NoneV \/ user_id = "") /\ (username = NoneV \/ username = "")
    THEN "identity empty"
    ELSE IF \/ user_id # NoneV /\ \E i \in UserIdx : users[i].user_id = user_id
            \/ username # NoneV /\ \E i \in UserIdx : users[i].username = username
    THEN "identity taken"
    ELSE "identity free"

\* The case of Group.create's name, and the users its usernames name.
NameCase(name) ==
    IF \E r \in groups : r.name = name THEN "name taken" ELSE "name free"

NamedUsers(usernames) ==
    {u \in UserIdx : \E i \in DOMAIN usernames : users[u].username = usernames[i]}

\* The case of a (group id, user row) pair given to add_user / remove_user.
PairCase(group_id, user) ==
    IF \A r \in groups : r.id # group_id THEN "no group"
    ELSE IF user = 0 THEN "no user"
    ELSE IF <<group_id, user>> \in members THEN "member"
    ELSE "not member"

\* The case of a (group id, caller) pair given to a gated tool.
CallerCase(group_id, teacher_user_id) ==
    IF \A r \in groups : r.id # group_id THEN "no group"
    ELSE IF \E r \in groups : r.id = group_id /\ r.owner_id = 0 THEN "no owner"
    ELSE IF \E r \in groups :
               r.id = group_id /\ users[r.owner_id].user_id = teacher_user_id
    THEN "owner"
    ELSE "not owner"

\* The case of Group.create's arguments: the first reason it has to raise.
CreateCase(name, owner_user_id, usernames) ==
    IF NameCase(name) = "name taken" THEN "name taken"
    ELSE IF /\ owner_user_id \notin {NoneV, ""}
            /\ \A u \in UserIdx : users[u].user_id # owner_user_id
    THEN "owner missing"
    ELSE IF \E i, j \in DOMAIN usernames :
               /\ i < j
               /\ usernames[i] = usernames[j]
               /\ \E u \in UserIdx : users[u].username = usernames[i]
    THEN "entry repeated"
    ELSE "name free"

\* The users who have the owner id given to Group.create.
NamedOwner(owner_user_id) ==
    IF owner_user_id \in {NoneV, ""} THEN {}
    ELSE {u \in UserIdx : users[u].user_id = owner_user_id}

\* No Group.create transaction of the second process, no generate_username
\* request.
NoSession == [pc |-> "idle", name |-> "", owner |-> 0]
NoRequest == [pc |-> "idle", attempts |-> 0, calls |-> 0, status |-> 0,
              username |-> "", result |-> ""]

Init ==
    /\ users = <<>>
    /\ groups = {}
    /\ members = {}
    /\ last = Outcome(Call("init", "", 0, {}), "None", "")
    /\ pending = [s \in 1..MaxSessions |-> NoSession]
    /\ gen = NoRequest

\* Mutant of UserCreateInvalid: `or` for `and`.
UserCreateInvalidEither(user_id, username) == ~Truthy(user_id) \/ ~Truthy(username)

\* ------------------------------------------------------------------ User
\* User.create: the validation of the identity fields.
UserCreateInvalid(user_id, username) == ~Truthy(user_id) /\ ~Truthy(username)

UserRow(user_id, username, is_activated) ==
    [user_id |-> user_id, username |-> username, is_activated |-> is_activated]

\* User.create: what session.commit() raises for the new row.
UserCreateCommitError(user_id, username, is_activated) ==
    IF UniqueViolation(Append(users, UserRow(user_id, username, is_activated)))
    THEN "IntegrityError"
    ELSE "ok"

UserCreateCapped(user_id, username, is_activated, cap) ==
    LET call == Call("User.create", IdentityCase(user_id, username), 0, {})
    IN  /\ UNCHANGED <<groups, members>>
        /\ IF UserCreateInvalid(user_id, username)
           THEN /\ users' = users
                /\ last' = Outcome(call, "ValueError", "")
           ELSE IF UserCreateCommitError(user_id, username, is_activated) # "ok"
           THEN /\ users' = users
                /\ last' = Outcome(call,
                                   UserCreateCommitError(user_id, username, is_activated),
                                   "")
           ELSE /\ Len(users) < cap
                /\ users' = Append(users, UserRow(user_id, username, is_activated))
                /\ last' = Outcome(call, "User", "created successfully")

UserCreate(user_id, username, is_activated) ==
    UserCreateCapped(user_id, username, is_activated, MaxUsers)

\* ------------------------------------------------------------------ Group
\* A groups row: id, name, owner_id.  The description given to Group.create
\* is stored and echoed by the snapshots, and read by no operation: the row
\* leaves it out, like the timestamps.
GroupRow(id, name, description, owner_id) ==
    [id |-> id, name |-> name, owner_id |-> owner_id]

\* Group.create, the loop over `usernames`: the user an entry resolves to, 0 if
\* it names no user.  The entries are strings and users.username is unique, so
\* at most one row matches.
ResolveEntry(username) ==
    IF UsersByUsername(username) = {} THEN 0
    ELSE CHOOSE u \in UsersByUsername(username) : TRUE

\* The users appended to group.users, in list order; its length is users_count.
ResolvedUsers(usernames) ==
    SelectSeq([i \in DOMAIN usernames |-> ResolveEntry(usernames[i])],
              LAMBDA u : u # 0)

\* Group.create, session.commit(): the appended users are inserted into the
\* association table one row per append, so the same user appended twice
\* violates its primary key (group_id, user_id).
GroupCreateCommitError(appended) ==
    IF Len(appended) # Cardinality(Range(appended)) THEN "IntegrityError" ELSE "ok"

\* Mutant of GroupCreateError: the owner is looked up before the name.
GroupCreateErrorOwnerFirst(name, owner_user_id, usernames) ==
    IF Truthy(owner_user_id) /\ UsersByUserId(owner_user_id) = {}
    THEN "ValueError: owner not found"
    ELSE IF GroupsByName(name) # {} THEN "ValueError: already exists"
    ELSE GroupCreateCommitError(ResolvedUsers(usernames))

\* Mutant of GroupCreateError: an entry that names no user is an error.
GroupCreateErrorUnresolvedFatal(name, owner_user_id, usernames) ==
    IF GroupsByName(name) # {} THEN "ValueError: already exists"
    ELSE IF Truthy(owner_user_id) /\ UsersByUserId(owner_user_id) = {}
    THEN "ValueError: owner not found"
    ELSE IF \E i \in DOMAIN usernames : UsersByUsername(usernames[i]) = {}
    THEN "ValueError: user not found"
    ELSE GroupCreateCommitError(ResolvedUsers(usernames))

\* Mutant of GroupCreateError: the owner is not looked up.
GroupCreateErrorOwnerUnchecked(name, owner_user_id, usernames) ==
    IF GroupsByName(name) # {} THEN "ValueError: already exists"
    ELSE GroupCreateCommitError(ResolvedUsers(usernames))

\* Group.create up to the first raise: "ok" or the exception.
GroupCreateError(name, owner_user_id, usernames) ==
    IF GroupsByName(name) # {} THEN "ValueError: already exists"
    ELSE IF Truthy(owner_user_id) /\ UsersByUserId(owner_user_id) = {}
    THEN "ValueError: owner not found"
    ELSE GroupCreateCommitError(ResolvedUsers(usernames))

\* Mutant of GroupCreateOwner: the owner found is not stored in the row.
GroupCreateOwnerDropped(owner_user_id) == 0

\* The store after a Group.create that commits.
GroupCreateOwner(owner_user_id) ==
    IF Truthy(owner_user_id) /\ UsersByUserId(owner_user_id) # {}
    THEN CHOOSE u \in UsersByUserId(owner_user_id) : TRUE
    ELSE 0

\* Mutant of GroupCreateUsers: every stored user is activated.
GroupCreateUsersAll(usernames) ==
    [i \in UserIdx |-> [users[i] EXCEPT !.is_activated = TRUE]]

GroupCreateUsers(usernames) ==
    [i \in UserIdx |->
        IF i \in Range(ResolvedUsers(usernames))
        THEN [users[i] EXCEPT !.is_activated = TRUE]
        ELSE users[i]]

\* Mutant of GroupCreateMembers: only the first resolved entry is appended.
GroupCreateMembersFirstOnly(usernames) ==
    members \cup {<<NewGroupId, ResolvedUsers(usernames)[i]>> :
                      i \in DOMAIN ResolvedUsers(usernames) \cap {1}}

GroupCreateMembers(usernames) ==
    members \cup {<<NewGroupId, u>> : u \in Range(ResolvedUsers(usernames))}

\* The keys of the dict Group.create returns.
GroupCreateResultKeys ==
    {"id", "name", "description", "added_users_count", "created_at"}

\* The record of a Group.create call.
GroupCreateCall(name, owner_user_id, usernames, result, log) ==
    IF NameCase(name) = "name taken"
    THEN Outcome(Call("Group.create", "name taken", 0, {}), result, log)
    ELSE [Outcome(Call("Group.create", CreateCase(name, owner_user_id, usernames),
                       NewGroupId, NamedUsers(usernames)),
                  result, log)
             EXCEPT !.entries = Len(usernames),
                    !.owner = NamedOwner(owner_user_id)]

\* Group.create with at most `cap` groups stored at once.
GroupCreateCapped(name, description, owner_user_id, usernames, cap) ==
    IF GroupCreateError(name, owner_user_id, usernames) # "ok"
    THEN /\ UNCHANGED <<users, groups, members>>
         /\ last' = GroupCreateCall(name, owner_user_id, usernames,
                         GroupCreateError(name, owner_user_id, usernames), "")
    ELSE /\ Cardinality(groups) < cap
         /\ NewGroupId <= MaxGroupId
         /\ groups' = groups \cup
                {GroupRow(NewGroupId, name, description,
                          GroupCreateOwner(owner_user_id))}
         /\ members' = GroupCreateMembers(usernames)
         /\ users' = GroupCreateUsers(usernames)
         /\ last' = [GroupCreateCall(name, owner_user_id, usernames, "dict",
                                     "created successfully")
                        EXCEPT !.count = Len(ResolvedUsers(usernames)),
                               !.keys = GroupCreateResultKeys]

GroupCreate(name, description, owner_user_id, usernames) ==
    GroupCreateCapped(name, description, owner_user_id, usernames, MaxGroups)

\* Mutant of GroupDeleteMembers: the association rows are left behind.
GroupDeleteMembersKept(group_id) == members

\* Group.delete_by_id: session.delete(group) also deletes the group's rows of
\* the association table; no users row is touched.
GroupDeleteMembers(group_id) == {m \in members : m[1] # group_id}

\* Mutant of GroupDeleteById: the members left without a group are
\* deactivated.
GroupDeleteByIdDeactivates(group_id) ==
    LET call == Call("Group.delete_by_id", PairCase(group_id, 0), group_id,
                     GroupUsers(group_id))
    IN  IF GroupsById(group_id) = {}
        THEN /\ UNCHANGED <<users, groups, members>>
             /\ last' = Outcome(call, "False", "group not found")
        ELSE /\ groups' = groups \ GroupsById(group_id)
             /\ members' = GroupDeleteMembers(group_id)
             /\ users' = [u \in UserIdx |->
                             IF /\ u \in GroupUsers(group_id)
                                /\ UserGroups(u) \subseteq {group_id}
                             THEN [users[u] EXCEPT !.is_activated = FALSE]
                             ELSE users[u]]
             /\ last' = Outcome(call, "True", "deleted successfully")

GroupDeleteById(group_id) ==
    LET call == Call("Group.delete_by_id", PairCase(group_id, 0), group_id,
                     GroupUsers(group_id))
    IN  /\ UNCHANGED users
        /\ IF GroupsById(group_id) = {}
           THEN /\ UNCHANGED <<groups, members>>
                /\ last' = Outcome(call, "False", "group not found")
           ELSE /\ groups' = groups \ GroupsById(group_id)
                /\ members' = GroupDeleteMembers(group_id)
                /\ last' = Outcome(call, "True", "deleted successfully")

\* Mutant of GroupAddUserCall: a user who is already a member is refused.
GroupAddUserCallRejectsMember(group_id, user) ==
    IF GroupsById(group_id) = {}
    THEN [members |-> members, result |-> "False", log |-> "group not found"]
    ELSE IF user = 0
    THEN [members |-> members, result |-> "False", log |-> "user not found"]
    ELSE IF user \in GroupUsers(group_id)
    THEN [members |-> members, result |-> "False", log |-> "already in group"]
    ELSE [members |-> members \cup {<<group_id, user>>}, result |-> "True",
          log |-> "added to group"]

\* Group.add_user with `user` the row Query.first() gave for user_id (0: None):
\* the association table it commits, what it returns and what it logs.
GroupAddUserCall(group_id, user) ==
    IF GroupsById(group_id) = {}
    THEN [members |-> members, result |-> "False", log |-> "group not found"]
    ELSE IF user = 0
    THEN [members |-> members, result |-> "False", log |-> "user not found"]
    ELSE IF user \in GroupUsers(group_id)
    THEN [members |-> members, result |-> "True", log |-> "already in group"]
    ELSE [members |-> members \cup {<<group_id, user>>}, result |-> "True",
          log |-> "added to group"]

GroupAddUser(group_id, user_id) ==
    \E user \in FirstUser(UsersByUserId(user_id)) :
        /\ members' = GroupAddUserCall(group_id, user).members
        /\ last' = Outcome(Call("Group.add_user", PairCase(group_id, user),
                                group_id, {user} \ {0}),
                           GroupAddUserCall(group_id, user).result,
                           GroupAddUserCall(group_id, user).log)
        /\ UNCHANGED <<users, groups>>

\* Mutant of GroupRemoveUserCall: removing a user who is no member succeeds.
GroupRemoveUserCallIgnoresAbsent(group_id, user) ==
    IF GroupsById(group_id) = {}
    THEN [members |-> members, result |-> "False", log |-> "group not found"]
    ELSE IF user = 0
    THEN [members |-> members, result |-> "False", log |-> "user not found"]
    ELSE [members |-> members \ {<<group_id, user>>}, result |-> "True",
          log |-> "removed from group"]

\* Group.remove_user, likewise.
GroupRemoveUserCall(group_id, user) ==
    IF GroupsById(group_id) = {}
    THEN [members |-> members, result |-> "False", log |-> "group not found"]
    ELSE IF user = 0
    THEN [members |-> members, result |-> "False", log |-> "user not found"]
    ELSE IF user \notin GroupUsers(group_id)
    THEN [members |-> members, result |-> "False", log |-> "not in group"]
    ELSE [members |-> members \ {<<group_id, user>>}, result |-> "True",
          log |-> "removed from group"]

GroupRemoveUser(group_id, user_id) ==
    \E user \in FirstUser(UsersByUserId(user_id)) :
        /\ members' = GroupRemoveUserCall(group_id, user).members
        /\ last' = Outcome(Call("Group.remove_user", PairCase(group_id, user),
                                group_id, {user} \ {0}),
                           GroupRemoveUserCall(group_id, user).result,
                           GroupRemoveUserCall(group_id, user).log)
        /\ UNCHANGED <<users, groups>>

\* The snapshot Group.get_by_id / Group.get_by_name build from a row: <<>> is
\* None.  `users` is the list of member dicts (a set here: the association
\* table holds a pair once, and the order of the list is the store's).
OwnerInfo(owner_id) ==
    IF owner_id = 0 THEN <<>>
    ELSE <<[user_id |-> users[owner_id].user_id,
            username |-> users[owner_id].username]>>

MemberDict(u) ==
    [id |-> u, user_id |-> users[u].user_id, username |-> users[u].username]

GroupSnapshot(row) ==
    [id |-> row.id, name |-> row.name,
     owner |-> OwnerInfo(row.owner_id),
     users |-> {MemberDict(u) : u \in GroupUsers(row.id)},
     users_count |-> Cardinality({MemberDict(u) : u \in GroupUsers(row.id)})]

\* Distinct rows never share an id; Group.create keeps names distinct.
GetById(group_id) ==
    IF GroupsById(group_id) = {} THEN <<>>
    ELSE <<GroupSnapshot(CHOOSE r \in GroupsById(group_id) : TRUE)>>

GetByName(name) ==
    IF GroupsByName(name) = {} THEN <<>>
    ELSE <<GroupSnapshot(CHOOSE r \in GroupsByName(name) : TRUE)>>

\* ------------------------------------------------------------------ sessions
\* Query.update({"is_activated": value}) on filter(User.username == username):
\* the users table as the session sees it after the UPDATE.
UpdateIsActivated(username, value) ==
    [i \in UserIdx |->
        IF users[i].username = username
        THEN [users[i] EXCEPT !.is_activated = value]
        ELSE users[i]]

\* Leaving `with SessionLocal() as session` closes the session: what was
\* committed stays, what was written after the last commit is rolled back.
SessionClose(committed, uncommitted) == committed

\* ------------------------------------------------------------------ tools
MsgNotOwned == "Group with ID {group_id} is not owned by {teacher_user_id}"
MsgDeleted == "Group with ID {group_id} deleted successfully"
MsgGroupNotFound == "Group with ID {group_id} not found"
MsgDatabaseError == "Database error: {e}"
MsgUserNotFound == "User with username {username} not found"
MsgAdded == "User {username} added to group {group_id} successfully."
MsgRemoved == "User {username} removed from group {group_id} successfully"
MsgRemoveFailed == "Failed to remove user {username} from group {group_id}."
MsgAlreadyActivated == "User '{username}' is already activated"
MsgActivated == "User '{username}' activated successfully"
MsgAlreadyDeactivated == "User '{username}' is already deactivated"
MsgDeactivated == "User '{username}' deactivated successfully"

\* Mutant of CheckTeacherOwnerOfGroup: any caller passes for a group that has
\* an owner.
CheckTeacherOwnerOfGroupAnyCaller(group_id, teacher_user_id) ==
    IF GroupsById(group_id) = {} THEN "False"
    ELSE LET group == CHOOSE r \in GroupsById(group_id) : TRUE
         IN  IF group.owner_id = 0 THEN "AttributeError" ELSE "True"

\* check_teacher_owner_of_group: "True", "False", or the AttributeError that
\* group.owner.user_id raises when group.owner is None.
CheckTeacherOwnerOfGroup(group_id, teacher_user_id) ==
    IF GroupsById(group_id) = {} THEN "False"
    ELSE LET group == CHOOSE r \in GroupsById(group_id) : TRUE
         IN  IF group.owner_id = 0 THEN "AttributeError"
             ELSE IF users[group.owner_id].user_id # teacher_user_id THEN "False"
             ELSE "True"

\* The line check_teacher_owner_of_group logs.
CheckTeacherOwnerLog(group_id, teacher_user_id) ==
    IF GroupsById(group_id) = {} THEN "group not found"
    ELSE IF CheckTeacherOwnerOfGroup(group_id, teacher_user_id) = "False"
    THEN "group is not owned by"
    ELSE ""

\* What a gated tool returns before it does anything else: the refusal, the
\* handler of `except Exception`, or "" when the caller is allowed.
Gate(group_id, teacher_user_id) ==
    IF CheckTeacherOwnerOfGroup(group_id, teacher_user_id) = "AttributeError"
    THEN MsgDatabaseError
    ELSE IF CheckTeacherOwnerOfGroup(group_id, teacher_user_id) = "False"
    THEN MsgNotOwned
    ELSE ""

\* The record of a gated tool's call: the group and the user named by
\* username are recorded when the caller is the owner.
GatedCall(op, teacher_user_id, group_id, username) ==
    IF CallerCase(group_id, teacher_user_id) = "owner"
    THEN Call(op, "owner", group_id, UsersByUsername(username))
    ELSE Call(op, CallerCase(group_id, teacher_user_id), 0, {})

Refused(op, group_id, teacher_user_id) ==
    /\ UNCHANGED <<users, groups, members>>
    /\ last' = Outcome(GatedCall(op, teacher_user_id, group_id, ""),
                       Gate(group_id, teacher_user_id),
                       IF Gate(group_id, teacher_user_id) = MsgDatabaseError
                       THEN "AttributeError"
                       ELSE CheckTeacherOwnerLog(group_id, teacher_user_id))

\* delete_group
DeleteGroupMessage(success) == IF success THEN MsgDeleted ELSE MsgGroupNotFound

DeleteGroup(group_id, teacher_user_id) ==
    IF Gate(group_id, teacher_user_id) # ""
    THEN Refused("delete_group", group_id, teacher_user_id)
    ELSE /\ UNCHANGED users
         /\ groups' = groups \ GroupsById(group_id)
         /\ members' = GroupDeleteMembers(group_id)
         /\ last' = Outcome([GatedCall("delete_group", teacher_user_id, group_id, "")
                                EXCEPT !.target = GroupUsers(group_id)],
                            DeleteGroupMessage(GroupsById(group_id) # {}),
                            "deleted successfully")

\* add_user_to_group: Group.add_user is called with the user_id of the row
\* found by username and commits the membership; the UPDATE of is_activated
\* that follows is not committed before the session is closed.
AddUserToGroup(teacher_user_id, group_id, username) ==
    LET call == GatedCall("add_user_to_group", teacher_user_id, group_id, username)
    IN  IF Gate(group_id, teacher_user_id) # ""
        THEN Refused("add_user_to_group", group_id, teacher_user_id)
        ELSE \E user \in FirstUser(UsersByUsername(username)) :
               IF user = 0
               THEN /\ UNCHANGED <<users, groups, members>>
                    /\ last' = Outcome(call, MsgUserNotFound, "")
               ELSE \E added \in FirstUser(UsersByUserId(users[user].user_id)) :
                      /\ members' = GroupAddUserCall(group_id, added).members
                      /\ users' = SessionClose(users,
                                              UpdateIsActivated(username, TRUE))
                      /\ UNCHANGED groups
                      /\ last' = Outcome(call, MsgAdded,
                                         GroupAddUserCall(group_id, added).log)

\* get_students_in_group.  The query gives the activated members of the group
\* in the order of the store (no ORDER BY: any order).
MsgNoStudents == "No students found in the group"

ActivatedMembers(group_id) ==
    {u \in GroupUsers(group_id) : users[u].is_activated}

Orders(S) == {q \in [1..Cardinality(S) -> S] : Range(q) = S}

\* The list comprehension has the clause `for student in students` twice:
\* for each student of the outer clause the inner one runs over all of them,
\* and the dict is built from the inner variable.
StudentsResult(students) ==
    [k \in 1..(Len(students) * Len(students)) |->
        students[((k - 1) % Len(students)) + 1]]

\* The handler has no try / except: the AttributeError of the ownership check
\* is raised out of it.
GetStudentsInGroup(teacher_user_id, group_id) ==
    LET call == GatedCall("get_students_in_group", teacher_user_id, group_id, "")
    IN  /\ UNCHANGED <<users, groups, members>>
        /\ IF CheckTeacherOwnerOfGroup(group_id, teacher_user_id) = "AttributeError"
           THEN last' = Outcome(call, "AttributeError", "")
           ELSE IF CheckTeacherOwnerOfGroup(group_id, teacher_user_id) = "False"
           THEN last' = Outcome(call, MsgNotOwned,
                                CheckTeacherOwnerLog(group_id, teacher_user_id))
           ELSE \E students \in Orders(ActivatedMembers(group_id)) :
                  IF students = <<>>
                  THEN last' = Outcome(call, MsgNoStudents, "")
                  ELSE last' = [Outcome(call, "list", "")
                                   EXCEPT !.listed = StudentsResult(students)]

\* remove_user_from_group calls Group.remove_user(group_id, username, session,
\* teacher_user_id): four arguments for a method that takes three, a TypeError
\* that `except Exception` turns into the database-error message.
RemoveUserCallArgs == 4
RemoveUserParams == 3

RemoveUserFromGroup(teacher_user_id, group_id, username) ==
    LET call == GatedCall("remove_user_from_group", teacher_user_id, group_id,
                          username)
    IN  IF Gate(group_id, teacher_user_id) # ""
        THEN Refused("remove_user_from_group", group_id, teacher_user_id)
        ELSE IF RemoveUserCallArgs # RemoveUserParams
        THEN /\ UNCHANGED <<users, groups, members>>
             /\ last' = Outcome(call, MsgDatabaseError, "TypeError")
        ELSE \E removed \in FirstUser(UsersByUserId(username)) :
               LET removal == GroupRemoveUserCall(group_id, removed)
                   left == {u \in UsersByUsername(username) :
                               {m \in removal.members : m[2] = u} = {}}
               IN  /\ members' = removal.members
                   /\ UNCHANGED groups
                   /\ IF removal.result = "True"
                      THEN /\ users' = SessionClose(users,
                                           IF left # {}
                                           THEN UpdateIsActivated(username, FALSE)
                                           ELSE users)
                           /\ last' = Outcome(call, MsgRemoved, removal.log)
                      ELSE /\ users' = users
                           /\ last' = Outcome(call, MsgRemoveFailed, removal.log)

\* Mutant of SetActivated: the new flag is not committed.
SetActivatedNotCommitted(op, username, value, already, done) ==
    \E user \in FirstUser(UsersByUsername(username)) :
        /\ UNCHANGED <<users, groups, members>>
        /\ IF user = 0
           THEN last' = Outcome(Call(op, "", 0, {}), MsgUserNotFound, "")
           ELSE IF users[user].is_activated = value
           THEN last' = Outcome(Call(op, "", 0, {user}), already, "")
           ELSE last' = Outcome(Call(op, "", 0, {user}), done, "")

\* activate_user / deactivate_user
SetActivated(op, username, value, already, done) ==
    \E user \in FirstUser(UsersByUsername(username)) :
        /\ UNCHANGED <<groups, members>>
        /\ IF user = 0
           THEN /\ users' = users
                /\ last' = Outcome(Call(op, "", 0, {}), MsgUserNotFound, "")
           ELSE IF users[user].is_activated = value
           THEN /\ users' = users
                /\ last' = Outcome(Call(op, "", 0, {user}), already, "")
           ELSE /\ users' = [users EXCEPT ![user].is_activated = value]
                /\ last' = Outcome(Call(op, "", 0, {user}), done, "")

ActivateUser(username) ==
    SetActivated("activate_user", username, TRUE, MsgAlreadyActivated, MsgActivated)

DeactivateUser(username) ==
    SetActivated("deactivate_user", username, FALSE, MsgAlreadyDeactivated,
                 MsgDeactivated)

\* The case of a username or an external id a route looks a user up by.
LookupCase(S) == IF S = {} THEN "no user" ELSE "user"

\* http_set_user_id_for_username: user.user_id = user_id on the row found by
\* username; with no such row `user` is None and the assignment raises.
SetUserIdForUsername(username, user_id) ==
    \E user \in FirstUser(UsersByUsername(username)) :
        LET call == Call("set_user_id_for_username",
                         LookupCase({u \in UserIdx : users[u].username = username}),
                         0, {user} \ {0})
        IN  /\ UNCHANGED <<groups, members>>
            /\ IF user = 0
               THEN /\ users' = users
                    /\ last' = Outcome(call, "AttributeError", "")
               ELSE IF UniqueViolation([users EXCEPT ![user].user_id = user_id])
               THEN /\ users' = users
                    /\ last' = Outcome(call, "IntegrityError", "")
               ELSE /\ users' = [users EXCEPT ![user].user_id = user_id]
                    /\ last' = Outcome(call, "success", "")

\* http_get_user_id: user.user_id of the row found by username; with no such
\* row `user` is None and the attribute access raises.
GetUserId(username) ==
    \E user \in FirstUser(UsersByUsername(username)) :
        /\ UNCHANGED <<users, groups, members>>
        /\ last' = Outcome(Call("get_user_id",
                                LookupCase({u \in UserIdx : users[u].username = username}),
                                0, {user} \ {0}),
                           IF user = 0 THEN "AttributeError" ELSE users[user].user_id,
                           "")

\* http_get_username_by_user_id: `user.username if user else None`.
GetUsernameByUserId(user_id) ==
    \E user \in FirstUser(UsersByUserId(user_id)) :
        /\ UNCHANGED <<users, groups, members>>
        /\ last' = Outcome(Call("get_username_by_user_id",
                                LookupCase({u \in UserIdx : users[u].user_id = user_id}),
                                0, {user} \ {0}),
                           IF user = 0 THEN NoneV ELSE users[user].username,
                           "")

\* create_user: User.create commits the new row in its own session, then the
\* registry is asked to register the user.  HTTP status codes of the registry.
RegistryStatus == {200, 500}

MsgRegisterError == "Error registering user: {response.text}"
MsgUserCreated == "User {username} created successfully"

\* The users table when create_user returns: nothing follows the registry's
\* answer but the return statements.
CreateUserStored(before, created, status) == created

\* User.create raises out of create_user, which has no try / except.
CreateUser(user_id, username, is_activated, status) ==
    LET call == Call("create_user", IdentityCase(user_id, username), 0, {})
    IN  /\ UNCHANGED <<groups, members>>
        /\ IF UserCreateInvalid(user_id, username)
           THEN /\ users' = users
                /\ last' = Outcome(call, "ValueError", "")
           ELSE IF UserCreateCommitError(user_id, username, is_activated) # "ok"
           THEN /\ users' = users
                /\ last' = Outcome(call,
                                   UserCreateCommitError(user_id, username, is_activated),
                                   "")
           ELSE /\ Len(users) < MaxUsers
                /\ users' = CreateUserStored(users,
                                Append(users, UserRow(user_id, username, is_activated)),
                                status)
                /\ last' = Outcome(call,
                                   IF status # 200 THEN MsgRegisterError
                                   ELSE MsgUserCreated,
                                   "created successfully")

\* The identities create_user is called with: both strings.
CreateUserArgs ==
    {<<"t1", "alice">>, <<"t2", "bob">>, <<"t1", "bob">>, <<"", "">>}

\* http_check_user_id_activated: the answers it may give for user_id.
CheckUserIdActivated(user_id) ==
    {IF user = 0 THEN FALSE ELSE users[user].is_activated :
        user \in FirstUser(UsersByUserId(user_id))}

\* Group ids a call may name: those in use and one that is not.
GroupIdArgs == 1..(MaxGroups + 1)

\* A call that runs from start to end in the server process: the transaction
\* of the second process and the generate_username request stay where they are.
Idle == UNCHANGED <<pending, gen>>

Next ==
    \/ \E id \in UserCreateArgs, a \in BOOLEAN :
           UserCreate(id[1], id[2], a) /\ Idle
    \/ \E n \in GroupNames, o \in OwnerArgs, us \in UsernameLists :
           GroupCreate(n, NoneV, o, us) /\ Idle
    \/ \E g \in GroupIdArgs : GroupDeleteById(g) /\ Idle
    \/ \E g \in GroupIdArgs, uid \in UserIdArgs : GroupAddUser(g, uid) /\ Idle
    \/ \E g \in GroupIdArgs, uid \in UserIdArgs : GroupRemoveUser(g, uid) /\ Idle
    \/ \E g \in GroupIdArgs, t \in TeacherArgs : DeleteGroup(g, t) /\ Idle
    \/ \E t \in TeacherArgs, g \in GroupIdArgs, un \in ToolUsernameArgs :
           AddUserToGroup(t, g, un) /\ Idle
    \/ \E t \in TeacherArgs, g \in GroupIdArgs, un \in ToolUsernameArgs :
           RemoveUserFromGroup(t, g, un) /\ Idle
    \/ \E un \in ToolUsernameArgs : ActivateUser(un) /\ Idle
    \/ \E un \in ToolUsernameArgs : DeactivateUser(un) /\ Idle

Spec == Init /\ [][Next]_vars

\* ------------------------------------------------------------------ server
\* The store methods and the tools of Next together with create_user and the
\* routes that look a user up.
\* Users are created with a username, with or without an external id, as the
\* account routes and create_user create them.
ServerUserArgs ==
    {<<"t1", "alice">>, <<"t2", "bob">>, <<NoneV, "alice">>, <<NoneV, "bob">>,
     <<NoneV, NoneV>>}
ServerTeacherArgs == UserIds

NextServer ==
    \/ \E id \in ServerUserArgs, a \in BOOLEAN :
           UserCreate(id[1], id[2], a) /\ Idle
    \/ \E n \in GroupNames, o \in OwnerArgs, us \in UsernameLists :
           GroupCreate(n, NoneV, o, us) /\ Idle
    \/ \E g \in GroupIdArgs : GroupDeleteById(g) /\ Idle
    \/ \E g \in GroupIdArgs, uid \in UserIdArgs : GroupAddUser(g, uid) /\ Idle
    \/ \E g \in GroupIdArgs, uid \in UserIdArgs : GroupRemoveUser(g, uid) /\ Idle
    \/ \E g \in GroupIdArgs, t \in ServerTeacherArgs : DeleteGroup(g, t) /\ Idle
    \/ \E t \in ServerTeacherArgs, g \in GroupIdArgs, un \in ToolUsernameArgs :
           AddUserToGroup(t, g, un) /\ Idle
    \/ \E t \in ServerTeacherArgs, g \in GroupIdArgs, un \in ToolUsernameArgs :
           RemoveUserFromGroup(t, g, un) /\ Idle
    \/ \E un \in ToolUsernameArgs : ActivateUser(un) /\ Idle
    \/ \E un \in ToolUsernameArgs : DeactivateUser(un) /\ Idle
    \/ \E id \in CreateUserArgs, a \in BOOLEAN, st \in RegistryStatus :
           CreateUser(id[1], id[2], a, st) /\ Idle
    \/ \E un \in ToolUsernameArgs, uid \in UserIds :
           SetUserIdForUsername(un, uid) /\ Idle
    \/ \E un \in ToolUsernameArgs : GetUserId(un) /\ Idle
    \/ \E uid \in TeacherArgs : GetUsernameByUserId(uid) /\ Idle
    \/ \E t \in ServerTeacherArgs, g \in GroupIdArgs :
           GetStudentsInGroup(t, g) /\ Idle

SpecServer == Init /\ [][NextServer]_vars

\* ------------------------------------------------------------------ store
\* The store methods alone, with several groups stored at once.  The users
\* are created with both identities set.
StoreUserArgs == {<<"t1", "alice">>, <<"t2", "bob">>}
StoreOwnerArgs == {NoneV, "t1"}
StoreGroupIdArgs == 1..MaxGroupId

NextStore ==
    \/ \E id \in StoreUserArgs, a \in BOOLEAN :
           UserCreate(id[1], id[2], a) /\ Idle
    \/ \E n \in GroupNames, o \in StoreOwnerArgs, us \in UsernameLists :
           GroupCreateCapped(n, NoneV, o, us, MaxStoreGroups) /\ Idle
    \/ \E g \in StoreGroupIdArgs : GroupDeleteById(g) /\ Idle
    \/ \E g \in StoreGroupIdArgs, uid \in UserIds : GroupAddUser(g, uid) /\ Idle
    \/ \E g \in StoreGroupIdArgs, uid \in UserIds : GroupRemoveUser(g, uid) /\ Idle

SpecStore == Init /\ [][NextStore]_vars

\* The tools on a store with a teacher known by external id and accounts known
\* by username only.
AccountUserArgs == {<<"t1", NoneV>>, <<NoneV, "alice">>, <<NoneV, "bob">>}

NextAccounts ==
    \/ \E id \in AccountUserArgs, a \in BOOLEAN :
           UserCreateCapped(id[1], id[2], a, MaxAccountUsers) /\ Idle
    \/ \E n \in GroupNames, us \in UsernameLists :
           GroupCreate(n, NoneV, "t1", us) /\ Idle
    \/ \E t \in UserIds, g \in GroupIdArgs, un \in Usernames :
           AddUserToGroup(t, g, un) /\ Idle
    \/ \E g \in GroupIdArgs, t \in UserIds : DeleteGroup(g, t) /\ Idle

SpecAccounts == Init /\ [][NextAccounts]_vars

\* ------------------------------------------------------------------ transactions
\* Group.create in a transaction of a second server process on the same
\* database: its two queries first, then the insert of the row, the look-ups
\* of the members and the commit.  Transactions of other processes come
\* between the two steps.  The groups table has an index on name and no
\* unique constraint, so the insert and the commit do not look at the names
\* stored meanwhile.
Sessions == 1..MaxSessions

\* The queries of Group.create: the name, then the owner.
GroupCreateCheck(s, name, owner_user_id) ==
    /\ pending[s].pc = "idle"
    /\ UNCHANGED <<users, groups, members, gen>>
    /\ IF GroupCreateError(name, owner_user_id, <<>>) # "ok"
       THEN /\ pending' = pending
            /\ last' = GroupCreateCall(name, owner_user_id, <<>>,
                            GroupCreateError(name, owner_user_id, <<>>), "")
       ELSE /\ pending' = [pending EXCEPT ![s] =
                              [pc |-> "checked", name |-> name,
                               owner |-> GroupCreateOwner(owner_user_id)]]
            /\ last' = last

\* session.add, session.flush, the loop over usernames and session.commit.
GroupCreateCommit(s, usernames) ==
    /\ pending[s].pc = "checked"
    /\ UNCHANGED gen
    /\ pending' = [pending EXCEPT ![s] = NoSession]
    /\ IF GroupCreateCommitError(ResolvedUsers(usernames)) # "ok"
       THEN /\ UNCHANGED <<users, groups, members>>
            /\ last' = Outcome(Call("Group.create", "entry repeated", 0, {}),
                               GroupCreateCommitError(ResolvedUsers(usernames)), "")
       ELSE /\ Cardinality(groups) < MaxStoreGroups
            /\ NewGroupId <= MaxGroupId
            /\ groups' = groups \cup
                   {GroupRow(NewGroupId, pending[s].name, NoneV, pending[s].owner)}
            /\ members' = GroupCreateMembers(usernames)
            /\ users' = GroupCreateUsers(usernames)
            /\ last' = [Outcome(Call("Group.create", "name free", NewGroupId,
                                     NamedUsers(usernames)),
                                "dict", "created successfully")
                           EXCEPT !.count = Len(ResolvedUsers(usernames)),
                                  !.entries = Len(usernames),
                                  !.keys = GroupCreateResultKeys]

\* The member lists of the concurrent creates.
SessionLists == {<<>>, <<"alice">>}

NextConcurrent ==
    \/ \E id \in StoreUserArgs : UserCreate(id[1], id[2], FALSE) /\ Idle
    \/ \E s \in Sessions, n \in GroupNames, o \in StoreOwnerArgs :
           GroupCreateCheck(s, n, o)
    \/ \E s \in Sessions, us \in SessionLists : GroupCreateCommit(s, us)
    \/ \E g \in StoreGroupIdArgs : GroupDeleteById(g) /\ Idle

SpecConcurrent == Init /\ [][NextConcurrent]_vars

\* ------------------------------------------------------------------ agent
\* generate_username.  gen is the request: pc is "await" while it waits for
\* the agent's answer, attempts the local of that name, calls the number of
\* POSTs to the agent that were answered, status and username the last
\* answer, result the error string of the 400 response or "success" (the 200
\* response, which carries username).
limit_attempts == 3

AgentStatus == {200, 500}
AgentNames == {NoneV, ""} \cup Usernames

MsgGenerateError == "Error generating username"
MsgUsernameEmpty == "Username is empty"
MsgUsernameExists == "Username already exists"

\* Mutant of GenerateUsernameStep: the loop runs while attempts <= limit.
GenerateUsernameStepOneMore(status, username, attempts) ==
    IF status # 200
    THEN [pc |-> "done", attempts |-> attempts, result |-> MsgGenerateError]
    ELSE IF ~Truthy(username)
    THEN [pc |-> "done", attempts |-> attempts, result |-> MsgUsernameEmpty]
    ELSE IF UsersByUsername(username) # {}
    THEN IF attempts + 1 <= limit_attempts
         THEN [pc |-> "await", attempts |-> attempts + 1, result |-> ""]
         ELSE [pc |-> "done", attempts |-> attempts + 1,
               result |-> MsgUsernameExists]
    ELSE [pc |-> "done", attempts |-> attempts, result |-> "success"]

\* The body of the while loop from the agent's answer on, up to the next POST
\* or the return: attempts < limit_attempts holds inside the loop, so after a
\* break the test attempts == limit_attempts fails.
GenerateUsernameStep(status, username, attempts) ==
    IF status # 200
    THEN [pc |-> "done", attempts |-> attempts, result |-> MsgGenerateError]
    ELSE IF ~Truthy(username)
    THEN [pc |-> "done", attempts |-> attempts, result |-> MsgUsernameEmpty]
    ELSE IF UsersByUsername(username) # {}
    THEN IF attempts + 1 < limit_attempts
         THEN [pc |-> "await", attempts |-> attempts + 1, result |-> ""]
         ELSE [pc |-> "done", attempts |-> attempts + 1,
               result |-> MsgUsernameExists]
    ELSE [pc |-> "done", attempts |-> attempts, result |-> "success"]

\* A request starts and runs to its first POST.
GenerateUsernameStart ==
    /\ gen.pc # "await"
    /\ gen' = [NoRequest EXCEPT !.pc = "await"]
    /\ UNCHANGED <<users, groups, members, last, pending>>

\* The agent answers and the request runs to its next POST or to its return.
GenerateUsernameReply(status, username) ==
    /\ gen.pc = "await"
    /\ gen' = [pc |-> GenerateUsernameStep(status, username, gen.attempts).pc,
               attempts |-> GenerateUsernameStep(status, username, gen.attempts).attempts,
               calls |-> gen.calls + 1,
               status |-> status,
               username |-> username,
               result |-> GenerateUsernameStep(status, username, gen.attempts).result]
    /\ UNCHANGED <<users, groups, members, last, pending>>

\* Between two answers of the agent other requests create users.
GenerateUserArgs == StoreUserArgs \cup {<<NoneV, "alice">>, <<NoneV, "bob">>}

NextGenerate ==
    \/ GenerateUsernameStart
    \/ \E st \in AgentStatus, un \in AgentNames : GenerateUsernameReply(st, un)
    \/ \E id \in GenerateUserArgs, a \in BOOLEAN :
           UserCreate(id[1], id[2], a) /\ Idle

SpecGenerate == Init /\ [][NextGenerate]_vars

\* ------------------------------------------------------------------ claims
GatedOps == {"delete_group", "add_user_to_group", "remove_user_from_group"}

StoreUnchanged == UNCHANGED <<users, groups, members>>

MemberIds(snapshot) == {m.id : m \in snapshot.users}

\* C1: Group.create with the name of a stored group raises the conflict
\* ValueError whatever description, owner and member list it is given, and
\* leaves the groups, the memberships and the users (their is_activated
\* flags) as they were.
C1_CreateExistingNameConflict ==
    [][(last'.op = "Group.create" /\ last'.pre = "name taken") =>
        /\ last'.result = "ValueError: already exists"
        /\ StoreUnchanged]_vars

\* C1 witness: a Group.create has just been refused for its name, with a
\* stored group that has a member.
C1_Witness ==
    /\ last.op = "Group.create"
    /\ last.pre = "name taken"
    /\ last.result = "ValueError: already exists"
    /\ members # {}

\* C2: User.create with an external id or a username a stored user has
\* raises ValueError, stores no second record and leaves the stored one.
C2_UserCreateConflictIsValueError ==
    [][(last'.op = "User.create" /\ last'.pre = "identity taken") =>
        /\ last'.result = "ValueError"
        /\ users' = users]_vars

\* C3: User.create with both identity fields empty or absent raises the
\* validation error and stores nothing; with one of them set (and taken by no
\* stored user) it stores one more user; no row it stores has both fields
\* empty.
C3_UserCreateNeedsIdentity ==
    [][last'.op = "User.create" =>
        /\ last'.pre = "identity empty" =>
               /\ last'.result = "ValueError"
               /\ StoreUnchanged
        /\ last'.pre = "identity free" =>
               /\ last'.result = "User"
               /\ Len(users') = Len(users) + 1
               /\ SubSeq(users', 1, Len(users)) = users
        /\ \A i \in DOMAIN users' \ DOMAIN users :
               \/ users'[i].user_id \notin {NoneV, ""}
               \/ users'[i].username \notin {NoneV, ""}]_vars

\* C3 witness: a User.create has just been refused for its empty identity,
\* and earlier calls with one field set have stored users.
C3_Witness ==
    /\ last.op = "User.create"
    /\ last.pre = "identity empty"
    /\ last.result = "ValueError"
    /\ \E i \in UserIdx : users[i].user_id = NoneV
    /\ \E i \in UserIdx : users[i].username = NoneV

\* C4: Group.add_user for a stored group and a stored user returns True
\* whether or not the user is a member already, and leaves exactly one
\* membership row for the pair: users_count grows by one on the first call
\* and by nothing on the second.
C4_AddUserIdempotent ==
    [][(last'.op = "Group.add_user" /\ last'.pre \in {"member", "not member"}) =>
        \A g \in GroupIdArgs, u \in UserIdx :
            (g = last'.g /\ u \in last'.target) =>
                /\ last'.result = "True"
                /\ members' = members \cup {<<g, u>>}
                /\ users' = users /\ groups' = groups
                /\ GetById(g)'[1].users_count =
                       GetById(g)[1].users_count
                           + (IF last'.pre = "member" THEN 0 ELSE 1)
                /\ GroupAddUserCall(g, u)'.result = "True"
                /\ GroupAddUserCall(g, u)'.members = members']_vars

\* C4 witness: Group.add_user has just returned True for a user who was a
\* member already.
C4_Witness ==
    /\ last.op = "Group.add_user"
    /\ last.pre = "member"
    /\ last.result = "True"
    /\ last.log = "already in group"

\* C5: Group.remove_user returns True and deletes the row when the pair is a
\* member, and a second call then returns False; when the pair is no member,
\* or the group or the user does not exist, it returns False and changes
\* nothing.
C5_RemoveUserOnce ==
    [][last'.op = "Group.remove_user" =>
        /\ last'.pre \in {"no group", "no user", "not member"} =>
               /\ last'.result = "False"
               /\ StoreUnchanged
        /\ last'.pre = "member" =>
               \A g \in GroupIdArgs, u \in UserIdx :
                   (g = last'.g /\ u \in last'.target) =>
                       /\ last'.result = "True"
                       /\ members' = members \ {<<g, u>>}
                       /\ users' = users /\ groups' = groups
                       /\ GroupRemoveUserCall(g, u)'.result = "False"
                       /\ GroupRemoveUserCall(g, u)'.members = members']_vars

\* C5 witness: Group.remove_user has just returned False for a stored group
\* and a stored user who is not (or no longer) a member of it.
C5_Witness ==
    /\ last.op = "Group.remove_user"
    /\ last.pre = "not member"
    /\ last.result = "False"
    /\ last.log = "not in group"

\* C6: remove_user_from_group called by the owner for a member removes the
\* membership; the user is inactive afterwards if no group is left, and keeps
\* the flag otherwise.
C6_OwnerRemoveDeactivates ==
    [][(last'.op = "remove_user_from_group" /\ last'.pre = "owner") =>
        \A g \in GroupIdArgs, u \in UserIdx :
            (g = last'.g /\ u \in last'.target /\ <<g, u>> \in members) =>
                /\ <<g, u>> \notin members'
                /\ (UserGroups(u)' = {} => ~users'[u].is_activated)
                /\ (UserGroups(u)' # {} =>
                        users'[u].is_activated = users[u].is_activated)]_vars

\* C7: once add_user_to_group has returned its success message to the owner,
\* the stored user is activated: a later check_user_id_activated answers true.
C7_OwnerAddActivates ==
    [][(last'.op = "add_user_to_group" /\ last'.result = MsgAdded) =>
        \A u \in UserIdx, uid \in UserIds :
            u \in last'.target =>
                /\ users'[u].is_activated
                /\ (uid = users[u].user_id =>
                        CheckUserIdActivated(uid)' = {TRUE})]_vars

\* C8: for a caller whose external id is not that of the group's stored owner
\* check_teacher_owner_of_group returns False, and delete_group,
\* add_user_to_group and remove_user_from_group answer with the refusal and
\* change neither groups, memberships nor users.
C8_NonOwnerRefused ==
    [][last'.op \in GatedOps =>
        /\ \A t \in TeacherArgs, g \in GroupIdArgs :
               CallerCase(g, t) \in {"no group", "not owner"} =>
                   CheckTeacherOwnerOfGroup(g, t) = "False"
        /\ last'.pre \in {"no group", "not owner"} =>
               /\ last'.result = MsgNotOwned
               /\ StoreUnchanged]_vars

\* C8 witness: a gated operation has just refused a caller who is not the
\* owner of a stored group that has members.
C8_Witness ==
    /\ last.op \in GatedOps
    /\ last.pre = "not owner"
    /\ last.result = MsgNotOwned
    /\ members # {}

\* C9: a gated operation on a group that does not exist never answers with
\* the value it gives a caller who is not the owner of a stored group.
C9_NotFoundDistinctFromRefusal ==
    [][(last'.op \in GatedOps /\ last'.pre = "no group") =>
        last'.result # MsgNotOwned]_vars

\* C10: after a Group.create that returned, get_by_name(name) and
\* get_by_id(returned id) give the same snapshot, whose members are exactly
\* the users the usernames name and whose users_count is their number; after
\* a Group.add_user / Group.remove_user that returned True the snapshot has
\* gained / lost exactly that user.
C10_SnapshotRoundTrip ==
    [][/\ (last'.op = "Group.create" /\ last'.result = "dict") =>
            \A g \in GroupIdArgs, n \in GroupNames, expected \in SUBSET UserIdx :
                (/\ g = last'.g
                 /\ expected = last'.target
                 /\ GroupsByName(n) = {}
                 /\ GroupsByName(n)' # {}) =>
                    /\ Len(GetByName(n)') = 1
                    /\ GetById(g)' = GetByName(n)'
                    /\ GetByName(n)'[1].id = g
                    /\ MemberIds(GetByName(n)'[1]) = expected
                    /\ GetByName(n)'[1].users_count = Cardinality(expected)
       /\ (last'.op \in {"Group.add_user", "Group.remove_user"}
                /\ last'.result = "True") =>
            \A g \in GroupIdArgs, u \in UserIdx :
                (g = last'.g /\ u \in last'.target) =>
                    /\ MemberIds(GetById(g)'[1]) =
                           IF last'.op = "Group.add_user"
                           THEN MemberIds(GetById(g)[1]) \cup {u}
                           ELSE MemberIds(GetById(g)[1]) \ {u}
                    /\ GetById(g)'[1].users_count =
                           Cardinality(MemberIds(GetById(g)'[1]))]_vars

\* C10 witness: a Group.create given two usernames has just returned, both
\* resolved.
C10_Witness ==
    /\ last.op = "Group.create"
    /\ last.result = "dict"
    /\ last.count = 2

\* The keys a returned dict would hold a number of skipped entries under.
SkippedCountKeys == {"skipped_users_count", "skipped_count", "skippedCount"}

C12_MissingOwnerRejected ==
    [][(last'.op = "Group.create" /\ last'.pre = "owner missing") =>
        /\ last'.result = "ValueError: owner not found"
        /\ StoreUnchanged
        /\ \A n \in GroupNames :
               GroupsByName(n) = {} =>
                   /\ GetByName(n)' = <<>>
                   /\ \A o \in OwnerArgs :
                          GroupCreateError(n, o, <<>>)' # "ValueError: already exists"]_vars

\* C12 witness: a Group.create has just been refused for its owner id, with
\* users stored and no group.
C12_Witness ==
    /\ last.op = "Group.create"
    /\ last.pre = "owner missing"
    /\ last.result = "ValueError: owner not found"
    /\ users # <<>>
    /\ groups = {}

\* C13: Group.delete_by_id returns True exactly when a group with the id is
\* stored.  It then deletes that group and the membership rows of that group
\* and nothing else: the users are as they were, the other groups and their
\* snapshots (members included) are as they were, and get_by_name for the
\* deleted name returns None.  When no group has the id it returns False and
\* changes nothing.
C13_DeleteByIdFrame ==
    [][last'.op = "Group.delete_by_id" =>
        \A g \in StoreGroupIdArgs :
            g = last'.g =>
                /\ (last'.result = "True") <=> (\E r \in groups : r.id = g)
                /\ last'.result \in {"True", "False"}
                /\ last'.result = "False" => StoreUnchanged
                /\ last'.result = "True" =>
                       /\ groups' = {r \in groups : r.id # g}
                       /\ members' = {m \in members : m[1] # g}
                       /\ users' = users
                       /\ \A r \in groups :
                              /\ r.id = g => GetByName(r.name)' = <<>>
                              /\ r.id # g =>
                                     /\ GetById(r.id)' = GetById(r.id)
                                     /\ GetByName(r.name)' = GetByName(r.name)]_vars

\* C13 witness: Group.delete_by_id has just returned True and another group,
\* which has members, is still stored.
C13_Witness ==
    /\ last.op = "Group.delete_by_id"
    /\ last.result = "True"
    /\ groups # {}
    /\ members # {}

\* C14: when create_user returns the registry's failure, the user it created
\* is not stored: no row has the external id or the username it was given
\* (none had before the call, or User.create would have raised), so the users
\* table is as before the call.
C14_RegistryFailureRollsBack ==
    [][(last'.op = "create_user" /\ last'.result = MsgRegisterError) =>
        /\ last'.pre = "identity free"
        /\ users' = users]_vars

\* C15: a generate_username request gets at most limit_attempts = 3 answers
\* from the agent.  It asks again only when every answer so far named a
\* stored user; it succeeds only with a name no stored user had when it was
\* looked up; the third collision ends it with 'Username already exists'; a
\* status other than 200 or an empty name ends it at once with its own error.
C15_GenerateUsernameBounded ==
    [][/\ gen'.calls <= 3
       /\ (gen.pc = "await" /\ gen' # gen) =>
              /\ gen'.calls = gen.calls + 1
              /\ gen.attempts = gen.calls
              /\ gen'.pc \in {"await", "done"}
              /\ gen'.pc = "await" <=> gen'.result = ""
              /\ gen'.result = "success" =>
                     /\ gen'.status = 200
                     /\ gen'.username \in Usernames
                     /\ \A u \in UserIdx : users[u].username # gen'.username
              /\ gen'.status # 200 => gen'.result = MsgGenerateError
              /\ (gen'.status = 200 /\ gen'.username \in {NoneV, ""}) =>
                     gen'.result = MsgUsernameEmpty
              /\ (/\ gen'.status = 200
                  /\ \E u \in UserIdx : users[u].username = gen'.username) =>
                     /\ gen'.attempts = gen.attempts + 1
                     /\ gen'.result = IF gen'.calls = 3 THEN MsgUsernameExists ELSE ""
              /\ gen'.result = MsgUsernameExists =>
                     gen'.calls = 3 /\ gen'.attempts = 3]_vars

\* C15 witness: a request has ended with 'Username already exists' after
\* three answers of the agent.
C15_Witness ==
    /\ gen.pc = "done"
    /\ gen.result = MsgUsernameExists
    /\ gen.calls = 3

\* C16: with creates running concurrently, no two stored groups have the same
\* name and no two stored users the same external id or the same username:
\* of two Group.create that passed the check of the same name at most one
\* commits.
C16_UniqueUnderInterleaving ==
    /\ \A r1, r2 \in groups : r1.name = r2.name => r1 = r2
    /\ ~UniqueViolation(users)

\* C17: whenever the is_activated of a stored user changes, it becomes true
\* by activate_user, add_user_to_group or Group.create for a user the call
\* names, or false by deactivate_user or by a remove_user_from_group that
\* leaves the user in no group.  No other call (User.create, create_user,
\* Group.add_user, Group.remove_user, Group.delete_by_id, delete_group,
\* set_user_id_for_username, the look-ups) changes the flag of a stored user.
C17_ActivationTransitions ==
    [][\A u \in UserIdx :
        users'[u].is_activated # users[u].is_activated =>
            /\ u \in last'.target
            /\ IF users'[u].is_activated
               THEN last'.op \in {"activate_user", "add_user_to_group", "Group.create"}
               ELSE /\ last'.op \in {"deactivate_user", "remove_user_from_group"}
                    /\ last'.op = "remove_user_from_group" =>
                           {m \in members' : m[2] = u} = {}]_vars

\* C17 witness: a Group.create has just activated the user it names while
\* another user, created inactive, is still inactive.
C17_Witness ==
    /\ last.op = "Group.create"
    /\ last.result = "dict"
    /\ \E u \in last.target : users[u].is_activated
    /\ \E v \in UserIdx \ last.target : ~users[v].is_activated

\* C18: activate_user (deactivate_user) for a stored user whose flag is
\* already true (false) changes nothing and reports that; otherwise it sets
\* the flag of that user and of no other and reports success.  Either way the
\* flag has the value asked for afterwards, so the same call again is the
\* first case.  For an unknown username it reports that and changes nothing.
C18_SetActivatedIdempotent ==
    [][last'.op \in {"activate_user", "deactivate_user"} =>
        /\ groups' = groups /\ members' = members
        /\ last'.target = {} =>
               last'.result = MsgUserNotFound /\ users' = users
        /\ \A u \in UserIdx, value \in BOOLEAN :
               (u \in last'.target /\ value = (last'.op = "activate_user")) =>
                   /\ users[u].is_activated = value =>
                          /\ users' = users
                          /\ last'.result = IF value THEN MsgAlreadyActivated
                                            ELSE MsgAlreadyDeactivated
                   /\ users[u].is_activated # value =>
                          /\ users' = [users EXCEPT ![u].is_activated = value]
                          /\ last'.result = IF value THEN MsgActivated
                                            ELSE MsgDeactivated
                   /\ users'[u].is_activated = value]_vars

\* C18 witness: activate_user has just found its user active already.
C18_Witness ==
    /\ last.op = "activate_user"
    /\ last.result = MsgAlreadyActivated
    /\ \E u \in last.target : users[u].is_activated

\* The routes that look a user up by an identifier.
LookupOps == {"get_user_id", "set_user_id_for_username", "get_username_by_user_id"}

\* C19: a look-up of a user by an identifier no stored user has ends in a
\* negative answer, not in an exception raised out of the handler, and
\* changes no stored record.
C19_AbsentIsNegativeResult ==
    [][(last'.op \in LookupOps /\ last'.pre = "no user") =>
        /\ last'.result # "AttributeError"
        /\ StoreUnchanged]_vars

\* C20: after a Group.create that returned, get_by_id and get_by_name give
\* as owner the user_id and username of the user who has the owner id given,
\* or None when no owner id (None, '') was given; and no call changes the
\* owner of a stored group.
C20_OwnerStored ==
    [][/\ (last'.op = "Group.create" /\ last'.result = "dict") =>
            \A g \in GroupIdArgs :
                g = last'.g =>
                    /\ Len(GetById(g)') = 1
                    /\ \A n \in GroupNames :
                           (GroupsByName(n) = {} /\ GroupsByName(n)' # {}) =>
                               GetByName(n)' = GetById(g)'
                    /\ IF last'.owner = {}
                       THEN GetById(g)'[1].owner = <<>>
                       ELSE \E o \in UserIdx :
                               /\ o \in last'.owner
                               /\ GetById(g)'[1].owner =
                                      <<[user_id |-> users[o].user_id,
                                         username |-> users[o].username]>>
       /\ \A r \in groups :
            \A q \in groups' : r.id = q.id => r.owner_id = q.owner_id]_vars

\* C20 witness: a Group.create given the external id of a stored user has
\* just returned and the group is stored with an owner.
C20_Witness ==
    /\ last.op = "Group.create"
    /\ last.result = "dict"
    /\ last.owner # {}
    /\ \E r \in groups : r.id = last.g /\ r.owner_id \in last.owner

\* C21: get_students_in_group called by the owner lists the activated
\* members of the group, each of them once and nobody else; with no activated
\* member it answers that no students were found.
C21_StudentsListedOnce ==
    [][(last'.op = "get_students_in_group" /\ last'.pre = "owner") =>
        \A g \in GroupIdArgs, expected \in SUBSET UserIdx :
            (/\ g = last'.g
             /\ expected = {u \in UserIdx :
                               <<g, u>> \in members /\ users[u].is_activated}) =>
                IF expected = {}
                THEN last'.result = MsgNoStudents
                ELSE /\ last'.result = "list"
                     /\ Range(last'.listed) = expected
                     /\ Len(last'.listed) = Cardinality(expected)]_vars

\* C22: after add_user_to_group has answered the owner with its success
\* message, the user who has the username is a member of the group and no
\* other user has become a member of any group.
C22_AddsTheNamedUser ==
    [][(last'.op = "add_user_to_group" /\ last'.pre = "owner"
            /\ last'.result = MsgAdded) =>
        \A g \in GroupIdArgs :
            g = last'.g =>
                /\ \A u \in UserIdx : u \in last'.target => <<g, u>> \in members'
                /\ \A m \in members' \ members :
                       m[1] = g /\ m[2] \in last'.target]_vars

\* The tools that ask check_teacher_owner_of_group first.
OwnerCheckedOps == GatedOps \cup {"get_students_in_group"}

\* C23: check_teacher_owner_of_group returns a boolean for every stored group
\* and every caller, False for a group stored without an owner; the tools that
\* ask it answer such a group with the refusal and change nothing.
C23_OwnerCheckTotal ==
    [][/\ \A t \in TeacherArgs, g \in GroupIdArgs :
            /\ CheckTeacherOwnerOfGroup(g, t) \in {"True", "False"}
            /\ CallerCase(g, t) = "no owner" =>
                   CheckTeacherOwnerOfGroup(g, t) = "False"
       /\ (last'.op \in OwnerCheckedOps /\ last'.pre = "no owner") =>
            /\ last'.result = MsgNotOwned
            /\ StoreUnchanged]_vars

\* C24: delete_group and Group.delete_by_id leave every users row, and so
\* every is_activated, as it was, also of the members of the deleted group
\* who are in no group afterwards.
C24_DeleteKeepsActivation ==
    [][last'.op \in {"delete_group", "Group.delete_by_id"} =>
        /\ users' = users
        /\ \A u \in UserIdx :
               u \in last'.target =>
                   users'[u].is_activated = users[u].is_activated]_vars

\* C24 witness: a group has just been deleted and one of its members is
\* active and a member of no group.
C24_Witness ==
    /\ last.op \in {"delete_group", "Group.delete_by_id"}
    /\ last.result \in {MsgDeleted, "True"}
    /\ \E u \in last.target :
           /\ users[u].is_activated
           /\ \A m \in members : m[2] # u

====
